---- MODULE Spec2Model ----
(***************************************************************************)
(* Model of src/phishbot.py: the completion monitor                        *)
(* (PhishingCampaignManager.wait_for_campaign_completion) and the          *)
(* extraction pipeline (PhishingCampaignManager.extract_campaign_results). *)
(*                                                                         *)
(* Time is counted in minutes.  The campaign service is external: every    *)
(* read either fails (GoPhishAPIClient._make_request raises) or returns a  *)
(* response drawn from a bounded set of shapes.                            *)
(***************************************************************************)
EXTENDS Integers, Sequences, FiniteSets, TLC

\* ------------------------------------------------------------------ bounds
\* timeouts tried: TimeoutStep, 2*TimeoutStep, ..., MaxTimeoutSteps*TimeoutStep minutes
MaxTimeoutSteps == 5
\* total, sent, clicked and submitted_data range over 0..MaxCount
MaxCount == 1
\* events of a timeline
MaxTimeline == 2
\* result records of a campaign
MaxResults == 2
\* groups of a campaign
MaxGroups == 2
\* targets of a group
MaxTargets == 2
\* clicked and submitted_data of a summary range over 0..MaxStat
MaxStat == 2

\* ------------------------------------------------- constants of the program
\* check_interval = 600 seconds
check_interval == 10
\* no_activity_timeout = timedelta(minutes=30)
no_activity_timeout == 30
\* timedelta(hours=1)
OneHour == 60
\* granularity of the timeouts tried (the 0.5 h of --test mode is 2 steps)
TimeoutStep == 15

\* a timestamp that is not set (last_activity_check = None)
None == -1

VARIABLES
    pc,                  \* position of the caller / monitor / extractor
    now,                 \* datetime.now(), minutes
    start_time,          \* monitor local
    timeout_time,        \* monitor local
    last_activity_check, \* monitor local, None or a time
    status,              \* monitor local: status read by this iteration's poll
    stats,               \* monitor local: counters read by this iteration's poll
    mon_result,          \* how wait_for_campaign_completion ended
    poll_outcome,        \* history: what this iteration's reads did
    prev_activity,       \* history: clicked and submitted_data of the latest
                         \* complete poll of an earlier iteration
    polls,               \* history: polls started in this call
    sleeps,              \* history: check-interval sleeps in this call
    last_growth,         \* history: time of the latest poll that saw clicked or
                         \* submitted_data above the previous complete poll
    campaign_arg,        \* extractor argument: campaign
    results,             \* extractor local: the summary read at line 395
    affected_users,      \* extractor local
    processed_emails,    \* extractor local: the de-duplication keys
    campaign_results,    \* extractor local: the records scanned by Method 2
    groups,              \* extractor local: the groups read by Method 3
    ext_result,          \* how extract_campaign_results ended
    ext_error,           \* history: the exception caught at line 510
    order,               \* history: the methods entered, in order
    produced,            \* history: the users each method appended
    campaign_reads,      \* history: get_campaign calls of this extract call
    calls,               \* the extract call under way: the first or the second
    first_call,          \* history: what the first extract call read and returned
    run,                 \* the program under way: "none" when a function is
                         \* called on its own, "monthly" (phishbot.py main) or
                         \* "manual" (manual_complete.py main)
    exit_code,           \* the exit status of the process, None while it runs
    send_i,              \* send_warning_emails: index of the record of this iteration
    log,                 \* history: the calls the program made, in order
    interrupted          \* history: where a KeyboardInterrupt arrived

monVars == <<now, start_time, timeout_time, last_activity_check, status,
             stats, mon_result, poll_outcome, prev_activity, polls, sleeps,
             last_growth>>

runVars == <<run, exit_code, send_i, log, interrupted>>

callVars == <<calls, first_call, runVars>>

extVars == <<campaign_arg, results, affected_users, processed_emails,
             campaign_results, groups, ext_result, ext_error, order, produced,
             campaign_reads, callVars>>

vars == <<pc, monVars, extVars>>

\* ------------------------------------------------------- service responses
Statuses == {"In progress", "Completed", "Finished", "<absent>"}

StatSnapshots ==
    [total : 0..MaxCount, sent : 0..MaxCount,
     clicked : 0..MaxCount, submitted : 0..MaxCount]

NoStats == [total |-> -1, sent |-> -1, clicked |-> -1, submitted |-> -1]

\* poll: the poll that fetched the record (0: the fetch after the loop)
NoCampaign == [id |-> 0, status |-> "<absent>", poll |-> 0]

NoResult == [kind |-> "none", via |-> "none", campaign |-> NoCampaign]

Timeouts == {TimeoutStep * k : k \in 1..MaxTimeoutSteps}

\* main, line 696: timeout_hours = 0.5 in test mode, minutes
TestModeTimeout == 30

\* the timeout_hours argument: a whole run is followed in test mode
TimeoutsNow == IF run = "none" THEN Timeouts ELSE {TestModeTimeout}

\* campaign.get('status', 'Unknown')
StatusOf(c) == IF c.status = "<absent>" THEN "Unknown" ELSE c.status

\* ----------------------------------------------------- monitor: conditions
\* while datetime.now() < timeout_time
LoopConditionLate(t, deadline) == t <= deadline
LoopCondition(t, deadline) == t < deadline

\* status in ["Completed", "Finished"]
IsCompletedOnly(st) == st = "Completed"
IsCompleted(st) == st \in {"Completed", "Finished"}

\* sent > 0 and sent == total
FullyDeliveredAtMost(s) == s.sent <= s.total /\ s.total > 0
FullyDelivered(s) == s.sent > 0 /\ s.sent = s.total

\* clicked > 0 or submitted > 0
HasActivity(s) == s.clicked > 0 \/ s.submitted > 0

\* current_time - last_activity_check > no_activity_timeout
QuietElapsedShort(t, since) == t - since > check_interval
QuietElapsedAtLeast(t, since) == t - since >= no_activity_timeout
QuietElapsed(t, since) == t - since > no_activity_timeout

\* elapsed > timedelta(hours=1)
NoActivityElapsedTwoHours(t, since) == t - since > 2 * OneHour
NoActivityElapsed(t, since) == t - since > OneHour

\* the decision of one complete poll: "status", "quiet", "noactivity" (return)
\* or "sleep"; lac is last_activity_check before the poll
Decision(st, s, t, lac, started) ==
    IF IsCompleted(st) THEN "status"
    ELSE IF FullyDelivered(s)
         THEN IF HasActivity(s)
              THEN IF lac = None THEN "sleep"
                   ELSE IF QuietElapsed(t, lac) THEN "quiet" ELSE "sleep"
              ELSE IF s.sent = s.total /\ NoActivityElapsed(t, started)
                   THEN "noactivity" ELSE "sleep"
         ELSE "sleep"

\* last_activity_check after a complete poll
NextActivityCheckRearmed(st, s, t, lac) ==
    IF ~IsCompleted(st) /\ FullyDelivered(s) /\ HasActivity(s)
    THEN (IF lac = None THEN t ELSE lac)
    ELSE None
NextActivityCheck(st, s, t, lac) ==
    IF ~IsCompleted(st) /\ FullyDelivered(s) /\ HasActivity(s) /\ lac = None
    THEN t ELSE lac

\* history: the poll saw more clicks or submissions than the previous complete poll
NoneSeen == [clicked |-> -1, submitted |-> -1]

Grew(old, new) ==
    old # NoneSeen /\ (new.clicked > old.clicked \/ new.submitted > old.submitted)

\* the locals of the try block before the reads of an iteration
NoPoll ==
    /\ poll_outcome' = "none"
    /\ status' = "Unknown"
    /\ stats' = NoStats

\* --------------------------------------------------------- monitor: actions
\* lines 326-336
WaitStart ==
    /\ UNCHANGED extVars
    /\ pc = "mon_call"
    /\ \E timeout \in TimeoutsNow :
         /\ start_time' = now
         /\ timeout_time' = now + timeout
    /\ last_activity_check' = None
    /\ pc' = "mon_while"
    /\ UNCHANGED <<now, status, stats, mon_result, poll_outcome, prev_activity,
                   polls, sleeps, last_growth>>

\* line 338
LoopTest ==
    /\ UNCHANGED extVars
    /\ pc = "mon_while"
    /\ pc' = IF LoopCondition(now, timeout_time) THEN "mon_poll" ELSE "mon_final"
    /\ UNCHANGED monVars

\* line 340 or line 341 raises: lines 382-383
PollFailsForgets ==
    /\ UNCHANGED extVars
    /\ pc = "mon_poll"
    /\ polls' = polls + 1
    /\ poll_outcome' = "failed"
    /\ last_activity_check' = None
    /\ pc' = "mon_sleep"
    /\ UNCHANGED <<now, start_time, timeout_time, status, stats,
                   mon_result, prev_activity, sleeps, last_growth>>
PollFails ==
    /\ UNCHANGED extVars
    /\ pc = "mon_poll"
    /\ polls' = polls + 1
    /\ poll_outcome' = "failed"
    /\ pc' = "mon_sleep"
    /\ UNCHANGED <<now, start_time, timeout_time, last_activity_check, status, stats,
                   mon_result, prev_activity, sleeps, last_growth>>

\* lines 340-378, both reads return
PollOk ==
    /\ UNCHANGED extVars
    /\ pc = "mon_poll"
    /\ polls' = polls + 1
    /\ poll_outcome' = "ok"
    /\ \E st \in Statuses, s \in StatSnapshots :
         LET c == [id |-> 1, status |-> st, poll |-> polls + 1]
             d == Decision(StatusOf(c), s, now, last_activity_check, start_time)
         IN /\ status' = StatusOf(c)
            /\ stats' = s
            /\ prev_activity' = [clicked |-> s.clicked, submitted |-> s.submitted]
            /\ last_growth' = IF Grew(prev_activity, s) THEN now ELSE last_growth
            /\ last_activity_check' =
                   NextActivityCheck(StatusOf(c), s, now, last_activity_check)
            /\ IF d = "sleep"
               THEN /\ pc' = "mon_sleep"
                    /\ UNCHANGED mon_result
               ELSE /\ pc' = "mon_done"
                    /\ mon_result' = [kind |-> "return", via |-> d, campaign |-> c]
    /\ UNCHANGED <<now, start_time, timeout_time, sleeps>>

\* time.sleep(check_interval): the time at which the sleep ends
AfterSleepHalf(at) == at + (check_interval \div 2)
AfterSleep(at) == at + check_interval

\* lines 380 and 384: time.sleep(check_interval) ends the iteration
Sleep ==
    /\ UNCHANGED extVars
    /\ pc = "mon_sleep"
    /\ now' = AfterSleep(now)
    /\ sleeps' = sleeps + 1
    /\ pc' = "mon_while"
    /\ NoPoll
    /\ UNCHANGED <<start_time, timeout_time, last_activity_check, mon_result,
                   prev_activity, polls, last_growth>>

\* lines 386-388, the read returns
FinalFetchOk ==
    /\ UNCHANGED extVars
    /\ pc = "mon_final"
    /\ \E st \in Statuses :
         mon_result' = [kind |-> "return", via |-> "deadline",
                        campaign |-> [id |-> 1, status |-> st, poll |-> 0]]
    /\ pc' = "mon_done"
    /\ UNCHANGED <<now, start_time, timeout_time, last_activity_check, status, stats,
                   poll_outcome, prev_activity, polls, sleeps, last_growth>>

\* line 387 raises: nothing in wait_for_campaign_completion catches it
FinalFetchFails ==
    /\ UNCHANGED extVars
    /\ pc = "mon_final"
    /\ mon_result' = [kind |-> "raise", via |-> "deadline", campaign |-> NoCampaign]
    /\ pc' = "mon_done"
    /\ UNCHANGED <<now, start_time, timeout_time, last_activity_check, status, stats,
                   poll_outcome, prev_activity, polls, sleeps, last_growth>>

\* ----------------------------------------------------- extraction: values
\* A JSON value of a service response is tagged: a string is the sequence of its
\* characters, a mapping has every key its kind can carry, Absent standing for a
\* key that is not there.
Absent == [t |-> "absent"]
Null == [t |-> "null"]
Str(s) == [t |-> "str", v |-> s]
Map(m) == [t |-> "map", v |-> m]
List(q) == [t |-> "list", v |-> q]
True == [t |-> "true"]
False == [t |-> "false"]
Num(n) == [t |-> "int", v |-> n]
Unset == [t |-> "unset"]

\* d.get(k, dflt), d a mapping
Get(d, k, dflt) == IF d.v[k] = Absent THEN dflt ELSE d.v[k]

\* k in d, d a mapping
HasKey(d, k) == d.v[k] # Absent

\* truth value of a JSON value (if email:, result.get('reported', False))
TruthyAlways(x) == TRUE
Truthy(x) ==
    CASE x.t = "str" -> x.v # <<>>
      [] x.t = "true" -> TRUE
      [] x.t = "list" -> x.v # <<>>
      [] x.t = "map" -> TRUE
      [] OTHER -> FALSE

UpperCase == <<"A", "B", "C", "D", "E", "F", "G", "H", "I", "J", "K", "L", "M",
               "N", "O", "P", "Q", "R", "S", "T", "U", "V", "W", "X", "Y", "Z">>
LowerCase == <<"a", "b", "c", "d", "e", "f", "g", "h", "i", "j", "k", "l", "m",
               "n", "o", "p", "q", "r", "s", "t", "u", "v", "w", "x", "y", "z">>

LowerChar(c) ==
    IF \E i \in DOMAIN UpperCase : UpperCase[i] = c
    THEN LowerCase[CHOOSE i \in DOMAIN UpperCase : UpperCase[i] = c]
    ELSE c

\* str.lower()
NotLowered(str) == str
Lower(str) == [i \in 1..Len(str) |-> LowerChar(str[i])]

\* sub in str
Contains(str, sub) ==
    \E i \in 0..(Len(str) - Len(sub)) : SubSeq(str, i + 1, i + Len(sub)) = sub

\* f"{x}" of a JSON value
Format(x) ==
    CASE x.t = "str" -> x.v
      [] x.t = "null" -> <<"N", "o", "n", "e">>
      [] x.t = "true" -> <<"T", "r", "u", "e">>
      [] OTHER -> <<"?">>

\* click_indicators, lines 411-416
click_indicators ==
    << <<"c", "l", "i", "c", "k", "e", "d", " ", "l", "i", "n", "k">>,
       <<"c", "l", "i", "c", "k", "e", "d">>,
       <<"l", "i", "n", "k", " ", "c", "l", "i", "c", "k", "e", "d">>,
       <<"s", "u", "b", "m", "i", "t", "t", "e", "d", " ", "d", "a", "t", "a">>,
       <<"s", "u", "b", "m", "i", "t", "t", "e", "d">>,
       <<"d", "a", "t", "a", " ", "s", "u", "b", "m", "i", "t", "t", "e", "d">>,
       <<"f", "o", "r", "m", " ", "s", "u", "b", "m", "i", "t", "t", "e", "d">>,
       <<"c", "r", "e", "d", "e", "n", "t", "i", "a", "l", "s", " ",
         "s", "u", "b", "m", "i", "t", "t", "e", "d">>,
       <<"e", "m", "a", "i", "l", " ", "c", "l", "i", "c", "k", "e", "d">>,
       <<"u", "s", "e", "r", " ", "c", "l", "i", "c", "k", "e", "d">> >>

\* any(indicator in message for indicator in click_indicators)
Matches(message) ==
    \E i \in DOMAIN click_indicators : Contains(message, click_indicators[i])

\* ------------------------------------------------- extraction: the service
ClickedLink == <<"C", "l", "i", "c", "k", "e", "d", " ", "L", "i", "n", "k">>
ClickedLinkMixed == <<"C", "L", "I", "C", "K", "E", "D", " ", "l", "i", "n", "k">>
SubmittedData == <<"S", "u", "b", "m", "i", "t", "t", "e", "d", " ", "D", "a", "t", "a">>
EmailSent == <<"E", "m", "a", "i", "l", " ", "S", "e", "n", "t">>
MailA == <<"a", "@", "x">>
MailB == <<"B", "@", "x">>
MailC == <<"c", "@", "x">>
MailOther == <<"o", "@", "x">>
Time1 == <<"t", "1">>
\* two events whose emails and messages differ and whose keys do not
Clicked == <<"c", "l", "i", "c", "k", "e", "d">>
XClicked == <<"x", "_", "c", "l", "i", "c", "k", "e", "d">>
MailU == <<"a">>
MailUX == <<"a", "_", "x">>
NameAnn == <<"A", "n", "n">>

\* the details payload of a timeline event
Details(email, first) ==
    Map([email |-> email, first_name |-> first, last_name |-> Absent])

\* a timeline event
Event(message, email, details) ==
    Map([message |-> message, email |-> email, details |-> details,
         time |-> Str(Time1)])

\* the timeline events the service may deliver
EventShapes ==
    { Event(Str(ClickedLink), Str(MailA), Absent),
      Event(Str(ClickedLinkMixed), Str(MailA), Details(Absent, Str(NameAnn))),
      Event(Str(SubmittedData), Str(MailA), Absent),
      Event(Str(EmailSent), Str(MailA), Absent),
      Event(Str(ClickedLink), Str(MailB), Details(Str(MailC), Absent)),
      Event(Str(ClickedLink), Absent, Details(Str(MailC), Str(NameAnn))),
      Event(Str(ClickedLink), Str(<<>>), Details(Str(MailC), Absent)),
      Event(Str(ClickedLink), Absent, Absent),
      Event(Str(ClickedLink), Str(MailA), Null),
      Event(Str(EmailSent), Str(MailA), Null),
      Event(Null, Str(MailA), Absent),
      Event(Absent, Str(MailA), Absent),
      Event(Str(Clicked), Str(MailUX), Absent),
      Event(Str(XClicked), Str(MailU), Absent),
      Null }

\* a per-target result record of the campaign
Result(st, email, clicked, submitted_data, reported) ==
    Map([status |-> st, email |-> email, clicked |-> clicked,
         submitted_data |-> submitted_data, reported |-> reported,
         send_date |-> Str(Time1), first_name |-> Str(NameAnn),
         last_name |-> Absent])

\* the result records the service may deliver
ResultShapes ==
    { Result(Str(SubmittedData), Str(MailB), Absent, Absent, Absent),
      Result(Str(ClickedLink), Str(MailA), Absent, Absent, Absent),
      Result(Str(SubmittedData), Str(MailA), Absent, Absent, Absent),
      Result(Str(EmailSent), Str(MailA), Absent, Absent, Absent),
      Result(Str(EmailSent), Str(MailA), Absent, Absent, True),
      Result(Str(EmailSent), Str(MailC), Absent, True, Absent),
      Result(Str(EmailSent), Str(MailC), True, Absent, Absent),
      Result(Str(ClickedLink), Str(<<>>), Absent, Absent, Absent),
      Null }

\* a target of a group
Target(email) ==
    Map([email |-> email, first_name |-> Str(NameAnn), last_name |-> Absent])

TargetShapes == {Target(Str(MailA)), Target(Str(MailB)), Target(Str(<<>>))}

\* a group
Group(targets) == Map([targets |-> List(targets)])

\* a group after the first one: its target is no target of any first group
OtherGroup == Group(<<Target(Str(MailOther))>>)

\* sequences over S of length at most n
SeqsUpTo(S, n) == UNION {[1..k -> S] : k \in 0..n}

Timelines == {Absent, Null} \cup {List(q) : q \in SeqsUpTo(EventShapes, MaxTimeline)}

ExtStats ==
    {Absent} \cup {Map([clicked |-> Num(c), submitted_data |-> Num(d)]) :
                      c \in 0..MaxStat, d \in 0..MaxStat}

\* the responses of get_campaign_summary
Summaries == {Map([timeline |-> tl, stats |-> st]) : tl \in Timelines, st \in ExtStats}

\* the 'results' of a get_campaign response
ResultLists == {Absent} \cup {List(q) : q \in SeqsUpTo(ResultShapes, MaxResults)}

\* the 'groups' of a get_campaign response: none, or a first group followed by
\* up to MaxGroups - 1 other groups
GroupLists ==
    {Absent, List(<<>>)} \cup
    {List(<<Group(ts)>> \o [i \in 1..k |-> OtherGroup]) :
        ts \in SeqsUpTo(TargetShapes, MaxTargets), k \in 0..(MaxGroups - 1)}

\* the campaign argument of extract_campaign_results
CampaignArgs == {Map([id |-> Num(1)]), Map([id |-> Absent])}

\* -------------------------------------------------- extraction: strategies
\* an entry of affected_users
User(first, last, email, time, type) ==
    [first_name |-> first, last_name |-> last, email |-> email,
     event_time |-> time, event_type |-> type]

\* what a loop has built so far; raised: an exception left the loop
Acc(users, processed) ==
    [raised |-> FALSE, users |-> users, processed |-> processed]

Raised == [raised |-> TRUE, users |-> <<>>, processed |-> {}]

\* the default {} of event.get('details', {})
EmptyDetails == Details(Absent, Absent)

\* line 423: f"{email}_{message}"
EventKeyEmailOnly(email, message) == Format(email)
EventKey(email, message) == Format(email) \o <<"_">> \o message

\* lines 405-436: one timeline event
TimelineStep(ev, acc) ==
    IF ev.t # "map" THEN Raised
    ELSE LET msg == Get(ev, "message", Str(<<>>)) IN
    IF msg.t # "str" THEN Raised
    ELSE LET message == Lower(msg.v) IN
    IF ~Matches(message) THEN acc
    ELSE LET details == Get(ev, "details", EmptyDetails) IN
    IF details.t # "map" THEN Raised
    ELSE LET email == Get(ev, "email", Get(details, "email", Str(<<>>)))
             event_key == EventKey(email, message)
         IN IF event_key \in acc.processed THEN acc
            ELSE IF Truthy(email)
                 THEN Acc(Append(acc.users,
                                 User(Get(details, "first_name", Str(<<>>)),
                                      Get(details, "last_name", Str(<<>>)),
                                      email,
                                      Get(ev, "time", Str(<<>>)),
                                      Get(ev, "message", Str(message)))),
                          acc.processed \cup {event_key})
                 ELSE Acc(acc.users, acc.processed \cup {event_key})

\* line 404: for event in timeline
RECURSIVE TimelineScan(_, _, _)
TimelineScan(tl, i, acc) ==
    IF acc.raised \/ i > Len(tl) THEN acc
    ELSE TimelineScan(tl, i + 1, TimelineStep(tl[i], acc))

\* line 439: not affected_users and len(timeline) == 0
ResultScanAlways(users, tl) == users = <<>>
ResultScanDue(users, tl) == users = <<>> /\ Len(tl) = 0

\* lines 450-452
QualifiesStatusOnly(r) ==
    Get(r, "status", Null) \in {Str(ClickedLink), Str(SubmittedData)}
Qualifies(r) ==
    \/ Get(r, "status", Null) \in {Str(ClickedLink), Str(SubmittedData)}
    \/ HasKey(r, "clicked")
    \/ HasKey(r, "submitted_data")
    \/ Truthy(Get(r, "reported", False))

\* line 455: email not in processed_emails
UnseenEmailAlways(email, processed) == TRUE
UnseenEmail(email, processed) == Format(email) \notin processed

\* lines 449-470: one result record
ResultStep(r, acc) ==
    IF r.t # "map" THEN Raised
    ELSE IF ~Qualifies(r) THEN acc
    ELSE LET email == Get(r, "email", Str(<<>>)) IN
         IF Truthy(email) /\ UnseenEmail(email, acc.processed)
         THEN Acc(Append(acc.users,
                         User(Get(r, "first_name", Str(<<>>)),
                              Get(r, "last_name", Str(<<>>)),
                              email,
                              Get(r, "send_date", Str(<<>>)),
                              IF HasKey(r, "submitted_data")
                                 \/ Get(r, "status", Null) = Str(SubmittedData)
                              THEN Str(SubmittedData) ELSE Str(ClickedLink))),
                  acc.processed \cup {Format(email)})
         ELSE acc

\* line 448: for result in campaign_results
RECURSIVE ResultScan(_, _, _)
ResultScan(rs, i, acc) ==
    IF acc.raised \/ i > Len(rs) THEN acc
    ELSE ResultScan(rs, i + 1, ResultStep(rs[i], acc))

\* the default {} of results.get('stats', {})
EmptyStats == Map([clicked |-> Absent, submitted_data |-> Absent])

\* lines 474-476
StatClicked(summary) == Get(Get(summary, "stats", EmptyStats), "clicked", Num(0)).v
StatSubmitted(summary) ==
    Get(Get(summary, "stats", EmptyStats), "submitted_data", Num(0)).v

Max(a, b) == IF a >= b THEN a ELSE b
Min(a, b) == IF a <= b THEN a ELSE b

\* line 491: i < max(clicked, submitted), i counted from 0
WithinActivityMin(i, clicked, submitted) == i < Min(clicked, submitted)
WithinActivity(i, clicked, submitted) == i < Max(clicked, submitted)

\* lines 473 and 478
ReconstructionAlways(users, summary) ==
    StatClicked(summary) > 0 \/ StatSubmitted(summary) > 0
ReconstructionDue(users, summary) ==
    users = <<>> /\ (StatClicked(summary) > 0 \/ StatSubmitted(summary) > 0)

\* line 494: "Submitted Data" if i < submitted else "Clicked Link"
TargetLabelUpTo(i, submitted) ==
    IF i <= submitted THEN Str(SubmittedData) ELSE Str(ClickedLink)
TargetLabel(i, submitted) ==
    IF i < submitted THEN Str(SubmittedData) ELSE Str(ClickedLink)

\* lines 488-502: one target, the i-th of its group counted from 0
TargetStep(target, i, clicked, submitted, stamp, acc) ==
    IF ~WithinActivity(i, clicked, submitted) THEN acc
    ELSE IF target.t # "map" THEN Raised
    ELSE LET email == Get(target, "email", Str(<<>>)) IN
         IF Truthy(email)
         THEN Acc(Append(acc.users,
                         User(Get(target, "first_name", Str(<<>>)),
                              Get(target, "last_name", Str(<<>>)),
                              email,
                              stamp,
                              TargetLabel(i, submitted))),
                  acc.processed)
         ELSE acc

\* line 488: for i, target in enumerate(targets)
RECURSIVE TargetScan(_, _, _, _, _, _)
TargetScan(ts, k, clicked, submitted, stamp, acc) ==
    IF acc.raised \/ k > Len(ts) THEN acc
    ELSE TargetScan(ts, k + 1, clicked, submitted, stamp,
                    TargetStep(ts[k], k - 1, clicked, submitted, stamp, acc))

\* lines 486-505: the first group only
GroupScanLast(gs, clicked, submitted, stamp, acc) ==
    IF gs = <<>> THEN acc
    ELSE IF gs[Len(gs)].t # "map" THEN Raised
    ELSE TargetScan(Get(gs[Len(gs)], "targets", List(<<>>)).v, 1, clicked,
                    submitted, stamp, acc)
GroupScan(gs, clicked, submitted, stamp, acc) ==
    IF gs = <<>> THEN acc
    ELSE IF gs[1].t # "map" THEN Raised
    ELSE TargetScan(Get(gs[1], "targets", List(<<>>)).v, 1, clicked, submitted,
                    stamp, acc)

\* datetime.now().isoformat()
Stamp(at) == [t |-> "time", v |-> at]

\* ----------------------------------------------------- extraction: actions
\* lines 510-512: except Exception: return []
ExceptReraise == [kind |-> "raise", users |-> <<>>]
ExceptHandler == [kind |-> "return", users |-> <<>>]

NoExtResult == [kind |-> "none", users |-> <<>>]

NoneProduced == [A |-> <<>>, B |-> <<>>, C |-> <<>>]

\* an exception inside the try block
Caught(err) ==
    /\ ext_error' = err
    /\ ext_result' = ExceptHandler
    /\ pc' = "ext_done"

\* lines 507-508
Return(users) ==
    /\ ext_result' = [kind |-> "return", users |-> users]
    /\ pc' = "ext_done"

\* what the first call left for the second: nothing yet
NoFirst == [arg |-> Unset, results |-> Unset, campaign_results |-> Unset,
            groups |-> Unset, result |-> NoExtResult, error |-> "none"]

\* what the service may hold at the second call besides what it held at the
\* first: a new click in the timeline, a new count, a new record, a new target
LaterSummaries ==
    { Map([timeline |-> List(<<Event(Str(ClickedLink), Str(MailB),
                                     Details(Str(MailC), Absent))>>),
           stats |-> Absent]),
      Map([timeline |-> List(<<>>),
           stats |-> Map([clicked |-> Num(1), submitted_data |-> Num(0)])]) }

LaterResultLists ==
    { List(<<>>),
      List(<<Result(Str(SubmittedData), Str(MailB), Absent, Absent, Absent)>>) }

LaterGroupLists == { List(<<Group(<<Target(Str(MailB))>>)>>) }

\* what the service holds when a whole run is followed: a campaign with two
\* timeline events of two users, one with two events of one user, one with no
\* event, one with none but a click counted, one whose timeline is null
RunSummaries ==
    { Map([timeline |-> List(<<Event(Str(ClickedLink), Str(MailA), Absent),
                               Event(Str(SubmittedData), Str(MailB), Absent)>>),
           stats |-> Absent]),
      Map([timeline |-> List(<<Event(Str(ClickedLink), Str(MailA), Absent),
                               Event(Str(SubmittedData), Str(MailA), Absent)>>),
           stats |-> Absent]),
      Map([timeline |-> List(<<>>), stats |-> Absent]),
      Map([timeline |-> List(<<>>),
           stats |-> Map([clicked |-> Num(1), submitted_data |-> Num(0)])]),
      Map([timeline |-> Null, stats |-> Absent]) }

\* the second call is for the campaign of the first
CampaignArgsNow == IF calls = 1 THEN CampaignArgs ELSE {first_call.arg}

\* the responses of the reads of the call under way
SummariesNow ==
    IF run # "none" THEN RunSummaries
    ELSE IF calls = 1 THEN Summaries
    ELSE ({first_call.results} \ {Unset}) \cup LaterSummaries

ResultListsNow ==
    IF run # "none" THEN LaterResultLists
    ELSE IF calls = 1 THEN ResultLists
    ELSE ({first_call.campaign_results} \ {Unset}) \cup LaterResultLists

GroupListsNow ==
    IF run # "none" THEN LaterGroupLists
    ELSE IF calls = 1 THEN GroupLists
    ELSE ({first_call.groups} \ {Unset}) \cup LaterGroupLists

\* line 392: affected_users = []
KeptUsers == affected_users
NewUsers == <<>>

\* line 401: processed_emails = set()
KeptProcessed == processed_emails
NewProcessed == {}

\* line 392
ExtractStart ==
    /\ UNCHANGED <<monVars, callVars>>
    /\ pc = "ext_call"
    /\ campaign_arg' \in CampaignArgsNow
    /\ affected_users' = NewUsers
    /\ pc' = "ext_summary"
    /\ UNCHANGED <<results, processed_emails, campaign_results, groups, ext_result,
                   ext_error, order, produced, campaign_reads>>

\* line 395: campaign['id'] raises KeyError
SummaryNoId ==
    /\ UNCHANGED <<monVars, callVars>>
    /\ pc = "ext_summary"
    /\ ~HasKey(campaign_arg, "id")
    /\ Caught("KeyError")
    /\ UNCHANGED <<campaign_arg, results, affected_users, processed_emails,
                   campaign_results, groups, order, produced, campaign_reads>>

\* line 395: get_campaign_summary raises
SummaryFails ==
    /\ UNCHANGED <<monVars, callVars>>
    /\ pc = "ext_summary"
    /\ HasKey(campaign_arg, "id")
    /\ Caught("summary read")
    /\ UNCHANGED <<campaign_arg, results, affected_users, processed_emails,
                   campaign_results, groups, order, produced, campaign_reads>>

\* lines 395-401: get_campaign_summary returns
SummaryOk ==
    /\ UNCHANGED <<monVars, callVars>>
    /\ pc = "ext_summary"
    /\ HasKey(campaign_arg, "id")
    /\ results' \in SummariesNow
    /\ processed_emails' = NewProcessed
    /\ pc' = "ext_A"
    /\ UNCHANGED <<campaign_arg, affected_users, campaign_results, groups,
                   ext_result, ext_error, order, produced, campaign_reads>>

\* lines 396-436: Method 1
StrategyA ==
    /\ UNCHANGED <<monVars, callVars>>
    /\ pc = "ext_A"
    /\ order' = Append(order, "A")
    /\ LET timeline == Get(results, "timeline", List(<<>>)) IN
       IF timeline.t # "list"
       THEN /\ Caught("TypeError")
            /\ UNCHANGED <<affected_users, processed_emails, produced>>
       ELSE LET out == TimelineScan(timeline.v, 1,
                                    Acc(affected_users, processed_emails)) IN
            IF out.raised
            THEN /\ Caught("AttributeError")
                 /\ UNCHANGED <<affected_users, processed_emails, produced>>
            ELSE /\ affected_users' = out.users
                 /\ processed_emails' = out.processed
                 /\ produced' = [produced EXCEPT !.A = out.users]
                 /\ pc' = "ext_B"
                 /\ UNCHANGED <<ext_result, ext_error>>
    /\ UNCHANGED <<campaign_arg, results, campaign_results, groups, campaign_reads>>

\* line 439 is false
StrategyBSkip ==
    /\ UNCHANGED monVars
    /\ pc = "ext_B"
    /\ ~ResultScanDue(affected_users, Get(results, "timeline", List(<<>>)).v)
    /\ pc' = "ext_C"
    /\ UNCHANGED extVars

\* lines 439-443: get_campaign raises
StrategyBReadFails ==
    /\ UNCHANGED <<monVars, callVars>>
    /\ pc = "ext_B"
    /\ ResultScanDue(affected_users, Get(results, "timeline", List(<<>>)).v)
    /\ order' = Append(order, "B")
    /\ campaign_reads' = campaign_reads + 1
    /\ Caught("campaign read")
    /\ UNCHANGED <<campaign_arg, results, affected_users, processed_emails,
                   campaign_results, groups, produced>>

\* lines 439-470: Method 2
StrategyB ==
    /\ UNCHANGED <<monVars, callVars>>
    /\ pc = "ext_B"
    /\ ResultScanDue(affected_users, Get(results, "timeline", List(<<>>)).v)
    /\ order' = Append(order, "B")
    /\ campaign_reads' = campaign_reads + 1
    /\ \E rl \in ResultListsNow :
         LET details == Map([results |-> rl])
             rs == Get(details, "results", List(<<>>))
             out == ResultScan(rs.v, 1, Acc(affected_users, processed_emails))
         IN /\ campaign_results' = rs
            /\ IF out.raised
               THEN /\ Caught("AttributeError")
                    /\ UNCHANGED <<affected_users, processed_emails, produced>>
               ELSE /\ affected_users' = out.users
                    /\ processed_emails' = out.processed
                    /\ produced' = [produced EXCEPT !.B = out.users]
                    /\ pc' = "ext_C"
                    /\ UNCHANGED <<ext_result, ext_error>>
    /\ UNCHANGED <<campaign_arg, results, groups>>

\* line 473 or line 478 is false: lines 507-508
StrategyCSkip ==
    /\ UNCHANGED <<monVars, callVars>>
    /\ pc = "ext_C"
    /\ ~ReconstructionDue(affected_users, results)
    /\ Return(affected_users)
    /\ UNCHANGED <<campaign_arg, results, affected_users, processed_emails,
                   campaign_results, groups, ext_error, order, produced,
                   campaign_reads>>

\* lines 473-483: get_campaign raises
StrategyCReadFails ==
    /\ UNCHANGED <<monVars, callVars>>
    /\ pc = "ext_C"
    /\ ReconstructionDue(affected_users, results)
    /\ order' = Append(order, "C")
    /\ campaign_reads' = campaign_reads + 1
    /\ Caught("campaign read")
    /\ UNCHANGED <<campaign_arg, results, affected_users, processed_emails,
                   campaign_results, groups, produced>>

\* lines 473-508: Method 3
StrategyC ==
    /\ UNCHANGED <<monVars, callVars>>
    /\ pc = "ext_C"
    /\ ReconstructionDue(affected_users, results)
    /\ order' = Append(order, "C")
    /\ campaign_reads' = campaign_reads + 1
    /\ \E gl \in GroupListsNow :
         LET details == Map([groups |-> gl])
             gs == Get(details, "groups", List(<<>>))
             out == GroupScan(gs.v, StatClicked(results), StatSubmitted(results),
                              Stamp(now), Acc(affected_users, processed_emails))
         IN /\ groups' = gs
            /\ IF out.raised
               THEN /\ Caught("AttributeError")
                    /\ UNCHANGED <<affected_users, produced>>
               ELSE /\ affected_users' = out.users
                    /\ produced' = [produced EXCEPT !.C = out.users]
                    /\ Return(out.users)
                    /\ UNCHANGED ext_error
    /\ UNCHANGED <<campaign_arg, results, processed_emails, campaign_results>>

\* the same campaign is processed again, later: a second call of
\* extract_campaign_results, its locals not yet bound
ExtractAgain ==
    /\ pc = "ext_done"
    /\ calls = 1
    /\ calls' = 2
    /\ first_call' = [arg |-> campaign_arg, results |-> results,
                      campaign_results |-> campaign_results, groups |-> groups,
                      result |-> ext_result, error |-> ext_error]
    /\ now' = now + 1
    /\ results' = Unset
    /\ campaign_results' = Unset
    /\ groups' = Unset
    /\ ext_result' = NoExtResult
    /\ ext_error' = "none"
    /\ order' = <<>>
    /\ produced' = NoneProduced
    /\ campaign_reads' = 0
    /\ pc' = "ext_call"
    /\ UNCHANGED <<campaign_arg, affected_users, processed_emails, runVars>>
    /\ UNCHANGED <<start_time, timeout_time, last_activity_check, status, stats,
                   mon_result, poll_outcome, prev_activity, polls, sleeps,
                   last_growth>>

MonIdle ==
    /\ now = 0
    /\ start_time = 0
    /\ timeout_time = 0
    /\ last_activity_check = None
    /\ status = "Unknown"
    /\ stats = NoStats
    /\ mon_result = NoResult
    /\ poll_outcome = "none"
    /\ prev_activity = NoneSeen
    /\ polls = 0
    /\ sleeps = 0
    /\ last_growth = None

ExtInit ==
    /\ campaign_arg = Unset
    /\ results = Unset
    /\ affected_users = <<>>
    /\ processed_emails = {}
    /\ campaign_results = Unset
    /\ groups = Unset
    /\ ext_result = NoExtResult
    /\ ext_error = "none"
    /\ order = <<>>
    /\ produced = NoneProduced
    /\ campaign_reads = 0
    /\ calls = 1
    /\ first_call = NoFirst

\* a KeyboardInterrupt that has not arrived
NoInterrupt == [at |-> "none", log |-> <<>>, polls |-> 0]

\* no program is followed: a function is called on its own
RunIdle ==
    /\ exit_code = None
    /\ send_i = 0
    /\ log = <<>>
    /\ interrupted = NoInterrupt

MonInit == pc = "mon_call" /\ MonIdle /\ ExtInit /\ run = "none" /\ RunIdle

MonNext ==
    \/ WaitStart
    \/ LoopTest
    \/ PollFails
    \/ PollOk
    \/ Sleep
    \/ FinalFetchOk
    \/ FinalFetchFails

MonSpec == MonInit /\ [][MonNext]_vars

\* the monitor runs in one thread: a statement that can be executed is executed,
\* every read returns or fails, every sleep ends
MonFairSpec == MonSpec /\ WF_vars(MonNext)

ExtNext ==
    \/ ExtractStart
    \/ SummaryNoId
    \/ SummaryFails
    \/ SummaryOk
    \/ StrategyA
    \/ StrategyBSkip
    \/ StrategyBReadFails
    \/ StrategyB
    \/ StrategyCSkip
    \/ StrategyCReadFails
    \/ StrategyC

\* extract_campaign_results called on its own, the monitor not running
ExtCallInit == pc = "ext_call" /\ MonIdle /\ ExtInit /\ run = "none" /\ RunIdle

ExtSpec == ExtCallInit /\ [][ExtNext]_vars

\* extract_campaign_results called twice for one campaign
TwiceNext ==
    \/ ExtNext
    \/ ExtractAgain

TwiceSpec == ExtCallInit /\ [][TwiceNext]_vars

\* ------------------------------------------------------------ run: handlers
\* A try statement is named by the function that holds it; its except clauses
\* are named by the class they name.
\* main of phishbot.py and main of manual_complete.py: except KeyboardInterrupt,
\* then except Exception; load_config: except FileNotFoundError, then except
\* yaml.YAMLError; read_targets_csv: except FileNotFoundError, then except
\* Exception; every other try statement: except Exception
Clauses(try) ==
    CASE try = "main" -> <<"KeyboardInterrupt", "Exception">>
      [] try = "load_config" -> <<"FileNotFoundError", "YAMLError">>
      [] try = "read_targets_csv" -> <<"FileNotFoundError", "Exception">>
      [] OTHER -> <<"Exception">>

\* the classes raised that are subclasses of Exception; KeyboardInterrupt and
\* SystemExit are not
Errors == {"Exception", "FileNotFoundError", "YAMLError"}

\* an except clause catches the class it names and its subclasses
ClauseCatchesAll(clause, exc) == clause = exc \/ clause = "Exception"
ClauseCatches(clause, exc) ==
    clause = exc \/ (clause = "Exception" /\ exc \in Errors)

\* the first clause of the try statement that catches exc
CaughtBy(try, exc) ==
    LET cs == Clauses(try)
        hits == {i \in 1..Len(cs) : ClauseCatches(cs[i], exc)}
    IN IF hits = {} THEN "none"
       ELSE cs[CHOOSE i \in hits : \A j \in hits : i <= j]

\* what a handler does: sys.exit(code), or log and go on
OnCatchLogsOnly(try, clause) == [kind |-> "resume", code |-> 0]
OnCatchExits(try, clause) == [kind |-> "exit", code |-> 1]
OnCatch(try, clause) ==
    CASE try = "main" ->
           [kind |-> "exit", code |-> IF clause = "KeyboardInterrupt" THEN 0 ELSE 1]
      [] try \in {"init", "load_config", "read_targets_csv"} ->
           [kind |-> "exit", code |-> 1]
      [] try = "test_api_connection" -> [kind |-> "exit", code |-> 2]
      [] try \in {"helper", "run"} -> [kind |-> "exit", code |-> 3]
      [] OTHER -> [kind |-> "resume", code |-> 0]

\* the try statements around a position, innermost first
Caller == IF run = "monthly" THEN <<"run", "main">> ELSE <<"main">>

Enclosing ==
    CASE pc = "init_config" -> <<"load_config", "init", "main">>
      [] pc = "init_key" -> <<"init", "main">>
      [] pc = "init_connect" -> <<"test_api_connection", "init", "main">>
      [] pc \in {"init_done", "main_exit"} -> <<"main">>
      [] pc = "run_targets" -> <<"read_targets_csv">> \o Caller
      [] pc \in {"run_lookup", "run_group", "run_campaign"} -> <<"helper">> \o Caller
      [] pc = "mon_poll" -> <<"wait">> \o Caller
      [] pc = "mon_sleep" ->
           IF poll_outcome = "ok" THEN <<"wait">> \o Caller ELSE Caller
      [] pc \in {"ext_summary", "ext_A", "ext_B", "ext_C"} -> <<"extract">> \o Caller
      [] pc = "run_saving" -> <<"save">> \o Caller
      [] pc = "send" -> <<"send_email", "send_loop">> \o Caller
      [] pc = "send_sleep" -> <<"send_loop">> \o Caller
      [] OTHER -> Caller

\* where the program goes on after a try statement whose handler has ended
ResumeAt(try) ==
    CASE try = "wait" -> "mon_sleep"
      [] try = "extract" -> "ext_done"
      [] try = "save" -> "run_saved"
      [] try = "send_email" -> "send_sleep"
      [] try = "send_loop" -> "send_next"
      [] try = "load_config" -> "init_key"
      [] try \in {"test_api_connection", "init"} -> "init_done"
      [] try = "read_targets_csv" -> "run_lookup"
      [] try = "helper" ->
           (CASE pc = "run_lookup" -> "run_group"
              [] pc = "run_group" -> "run_campaign"
              [] OTHER -> "run_wait")
      [] try = "run" -> "main_exit"
      [] OTHER -> "exited"

\* an exception of class exc travels through the try statements of chain;
\* code is the status a SystemExit carries
RECURSIVE Unwind(_, _, _)
Unwind(chain, exc, code) ==
    IF chain = <<>>
    THEN [kind |-> "exit", code |-> IF exc = "SystemExit" THEN code ELSE 1,
          at |-> "top"]
    ELSE LET try == Head(chain)
             clause == CaughtBy(try, exc)
         IN IF clause = "none" THEN Unwind(Tail(chain), exc, code)
            ELSE IF OnCatch(try, clause).kind = "exit"
            THEN Unwind(Tail(chain), "SystemExit", OnCatch(try, clause).code)
            ELSE [kind |-> "resume", code |-> 0, at |-> try]

\* an exception of class exc is raised at the current position
Raise(exc) ==
    LET u == Unwind(Enclosing, exc, 0)
    IN /\ pc' = IF u.kind = "exit" THEN "exited" ELSE ResumeAt(u.at)
       /\ exit_code' = IF u.kind = "exit" THEN u.code ELSE exit_code

\* the statement ends and the next one is reached
Goes(to) ==
    /\ pc' = to
    /\ UNCHANGED exit_code

Ev(op, arg) == [op |-> op, arg |-> arg]

Done(op) == \E i \in 1..Len(log) : log[i].op = op

\* ------------------------------------------------------------- run: actions
runLocals == <<monVars, campaign_arg, results, affected_users, processed_emails,
               campaign_results, groups, ext_result, ext_error, order, produced,
               campaign_reads, calls, first_call, run>>

\* lines 112-113 and 146-158: load_config; the file is missing, is not YAML,
\* or cannot be read
LoadConfig ==
    /\ pc = "init_config"
    /\ \/ Goes("init_key") /\ UNCHANGED log
       \/ /\ \E exc \in Errors : Raise(exc)
          /\ log' = Append(log, Ev("startup_error", 1))
    /\ UNCHANGED <<runLocals, send_i, interrupted>>

\* lines 115-120: the API key, from the environment or the configuration
ApiKey ==
    /\ pc = "init_key"
    /\ \/ Goes("init_connect") /\ UNCHANGED log
       \/ Raise("Exception") /\ log' = Append(log, Ev("startup_error", 2))
    /\ UNCHANGED <<runLocals, send_i, interrupted>>

\* lines 128 and 160-167: test_api_connection
TestConnection ==
    /\ pc = "init_connect"
    /\ \/ Goes("init_done") /\ UNCHANGED log
       \/ Raise("Exception") /\ log' = Append(log, Ev("startup_error", 3))
    /\ UNCHANGED <<runLocals, send_i, interrupted>>

\* lines 129 and 692-699; manual_complete.py, lines 40-43
ManagerBuilt ==
    /\ pc = "init_done"
    /\ Goes(IF run = "monthly" THEN "run_targets" ELSE "man_get")
    /\ UNCHANGED <<runLocals, send_i, log, interrupted>>

\* line 614: read_targets_csv
ReadTargets ==
    /\ pc = "run_targets"
    /\ Goes("run_lookup") \/ \E exc \in Errors : Raise(exc)
    /\ UNCHANGED <<runLocals, send_i, log, interrupted>>

\* lines 616-618: get_smtp_profile, get_template, get_landing_page
Lookups ==
    /\ pc = "run_lookup"
    /\ Goes("run_group") \/ Raise("Exception")
    /\ UNCHANGED <<runLocals, send_i, log, interrupted>>

\* line 620: create_target_group
CreateGroup ==
    /\ pc = "run_group"
    /\ \/ Goes("run_campaign") /\ log' = Append(log, Ev("create_group", 0))
       \/ Raise("Exception") /\ UNCHANGED log
    /\ UNCHANGED <<runLocals, send_i, interrupted>>

\* lines 622-629: create_campaign
CreateCampaign ==
    /\ pc = "run_campaign"
    /\ \/ Goes("run_wait") /\ log' = Append(log, Ev("create_campaign", 0))
       \/ Raise("Exception") /\ UNCHANGED log
    /\ UNCHANGED <<runLocals, send_i, interrupted>>

\* lines 631-634: wait_for_campaign_completion is called
CallWait ==
    /\ pc = "run_wait"
    /\ Goes("mon_call")
    /\ log' = Append(log, Ev("wait_called", 0))
    /\ UNCHANGED <<runLocals, send_i, interrupted>>

\* lines 631-636: the monitor returns and extract_campaign_results is called,
\* or the monitor's exception reaches run_monthly_campaign
WaitEnds ==
    /\ pc = "mon_done"
    /\ run = "monthly"
    /\ IF mon_result.kind = "return"
       THEN /\ Goes("ext_call")
            /\ log' = log \o <<Ev("wait_returned", 0), Ev("extract_called", 0)>>
       ELSE /\ Raise("Exception")
            /\ UNCHANGED log
    /\ UNCHANGED <<runLocals, send_i, interrupted>>

\* manual_complete.py, lines 44-59: the campaign is read and
\* extract_campaign_results is called
ManualGet ==
    /\ pc = "man_get"
    /\ \/ Goes("ext_call") /\ log' = Append(log, Ev("extract_called", 0))
       \/ Raise("Exception") /\ UNCHANGED log
    /\ UNCHANGED <<runLocals, send_i, interrupted>>

\* line 638, manual_complete.py line 61: if affected_users
AfterExtractAlways(users) == "run_save"
AfterExtract(users) ==
    IF users # <<>> THEN "run_save"
    ELSE IF run = "manual" THEN "man_debug" ELSE "run_end"

\* lines 636-638: extract_campaign_results has ended
ExtractEnds ==
    /\ pc = "ext_done"
    /\ run # "none"
    /\ IF ext_result.kind = "return"
       THEN /\ Goes(AfterExtract(ext_result.users))
            /\ log' = Append(log, Ev("extract_returned", Len(ext_result.users)))
       ELSE /\ Raise("Exception")
            /\ UNCHANGED log
    /\ UNCHANGED <<runLocals, send_i, interrupted>>

\* manual_complete.py, lines 81-98: the timeline is read again and printed
ManualDebug ==
    /\ pc = "man_debug"
    /\ Goes("run_end") \/ Raise("Exception")
    /\ UNCHANGED <<runLocals, send_i, log, interrupted>>

\* line 639: save_results_csv is called
SaveStart ==
    /\ pc = "run_save"
    /\ Goes("run_saving")
    /\ log' = Append(log, Ev("save_called", 0))
    /\ UNCHANGED <<runLocals, send_i, interrupted>>

\* lines 514-534: the file is written, or the handler logs the error
SaveEnds ==
    /\ pc = "run_saving"
    /\ \/ Goes("run_saved") /\ log' = Append(log, Ev("save_ended", 0))
       \/ Raise("Exception") /\ log' = Append(log, Ev("save_ended", 1))
    /\ UNCHANGED <<runLocals, send_i, interrupted>>

\* lines 641-642: send_warning_emails is called if the configuration says so
SendTest ==
    /\ pc = "run_saved"
    /\ \E configured \in BOOLEAN :
         IF configured
         THEN /\ Goes("send_next")
              /\ send_i' = 1
              /\ log' = Append(log, Ev("notify_called", 0))
         ELSE /\ Goes("run_end")
              /\ UNCHANGED <<send_i, log>>
    /\ UNCHANGED <<runLocals, interrupted>>

\* line 587: the records the loop visits are those of the list, as they are
RecipientsOncePerEmail(users) ==
    LET F[i \in 0..Len(users)] ==
            IF i = 0 THEN <<>>
            ELSE IF \E j \in 1..(i - 1) : users[j].email = users[i].email
                 THEN F[i - 1]
                 ELSE Append(F[i - 1], users[i])
    IN F[Len(users)]
Recipients(users) == users

\* lines 587-589: for user in affected_users
SendNext ==
    /\ pc = "send_next"
    /\ IF send_i <= Len(Recipients(ext_result.users))
       THEN /\ Goes("send")
            /\ log' = Append(log, Ev("send", send_i))
       ELSE /\ Goes("run_end")
            /\ log' = Append(log, Ev("notify_ended", 0))
    /\ UNCHANGED <<runLocals, send_i, interrupted>>

\* lines 536-581: send_warning_email; its handler logs a failure
Send ==
    /\ pc = "send"
    /\ \/ Goes("send_sleep") /\ log' = Append(log, Ev("sent", send_i))
       \/ Raise("Exception") /\ log' = Append(log, Ev("send_failed", send_i))
    /\ UNCHANGED <<runLocals, send_i, interrupted>>

\* lines 587-598: the record the loop turns to after a send
NextRecordStopOnFailure(ok, i, n) == IF ok THEN i + 1 ELSE n + 1
NextRecord(ok, i, n) == i + 1

\* line 594: time.sleep(2), then the next iteration
SendSleep ==
    /\ pc = "send_sleep"
    /\ send_i' = NextRecord(log[Len(log)].op = "sent", send_i,
                            Len(Recipients(ext_result.users)))
    /\ Goes("send_next")
    /\ UNCHANGED <<runLocals, log, interrupted>>

\* line 646 and the return to main; manual_complete.py, lines 100-101 and the
\* end of main
RunEnd ==
    /\ pc = "run_end"
    /\ IF run = "monthly" THEN Goes("main_exit")
       ELSE pc' = "exited" /\ exit_code' = 0
    /\ UNCHANGED <<runLocals, send_i, log, interrupted>>

\* main, line 700: sys.exit(0)
MainExit ==
    /\ pc = "main_exit"
    /\ Raise("SystemExit")
    /\ UNCHANGED <<runLocals, send_i, log, interrupted>>

\* the user interrupts the program: KeyboardInterrupt is raised at the
\* current position
Interrupt ==
    /\ run # "none"
    /\ pc # "exited"
    /\ interrupted = NoInterrupt
    /\ interrupted' = [at |-> pc, log |-> log, polls |-> polls]
    /\ Raise("KeyboardInterrupt")
    /\ UNCHANGED <<runLocals, send_i, log>>

\* a program is started: the first statement of main's try block
RunInit ==
    /\ pc = "init_config"
    /\ MonIdle
    /\ ExtInit
    /\ run \in {"monthly", "manual"}
    /\ RunIdle

RunNext ==
    \/ LoadConfig
    \/ ApiKey
    \/ TestConnection
    \/ ManagerBuilt
    \/ ReadTargets
    \/ Lookups
    \/ CreateGroup
    \/ CreateCampaign
    \/ CallWait
    \/ MonNext
    \/ WaitEnds
    \/ ManualGet
    \/ ExtNext
    \/ ExtractEnds
    \/ ManualDebug
    \/ SaveStart
    \/ SaveEnds
    \/ SendTest
    \/ SendNext
    \/ Send
    \/ SendSleep
    \/ RunEnd
    \/ MainExit
    \/ Interrupt

RunSpec == RunInit /\ [][RunNext]_vars

\* ------------------------------------------------------ monitor: properties

\* C1: when the first poll's two reads succeed and the status label it reads is
\* "Completed" or "Finished", the call returns at that poll, with the campaign
\* record that poll fetched, and without any check-interval sleep.
C1_CompletedReturnsOnFirstPoll ==
    (polls = 1 /\ poll_outcome = "ok" /\ status \in {"Completed", "Finished"})
        => /\ pc = "mon_done"
           /\ mon_result.kind = "return"
           /\ mon_result.campaign.poll = 1
           /\ mon_result.campaign.status = status
           /\ sleeps = 0

C1_Witness ==
    /\ pc = "mon_done"
    /\ polls = 1
    /\ poll_outcome = "ok"
    /\ status = "Finished"
    /\ mon_result.kind = "return"

\* C2 as stated: a call that ends by the deadline returns exactly at the deadline,
\* never after start + timeout, whatever the timeout.
C2_ReturnsExactlyAtDeadline ==
    (mon_result.kind = "return" /\ mon_result.via = "deadline")
        => now <= timeout_time

\* C2 amended: a call that ends by the deadline returns at the first multiple of
\* the check interval (counted from the start) that is at or after the deadline:
\* exactly at the deadline when the timeout is a multiple of the check interval,
\* and otherwise less than one check interval after it.
C2_ReturnsWithinOneIntervalOfDeadline ==
    (mon_result.kind = "return" /\ mon_result.via = "deadline")
        => /\ timeout_time <= now
           /\ now < timeout_time + check_interval
           /\ (now - start_time) % check_interval = 0
           /\ ((timeout_time - start_time) % check_interval = 0 => now = timeout_time)

C2_Witness ==
    /\ mon_result.kind = "return"
    /\ mon_result.via = "deadline"
    /\ (timeout_time - start_time) % check_interval # 0
    /\ now > timeout_time

\* C3 as stated: whatever reads fail, the call never ends by an exception.
C3_MonitorNeverRaises == mon_result.kind # "raise"

\* C4: a complete poll whose statistics have sent < total never ends the call
\* through the quiet-period path or the no-activity path: after it the monitor
\* sleeps, unless the status label ended the call.
C4_NotDeliveredNeverStopsAsDelivered ==
    (poll_outcome = "ok" /\ stats.sent < stats.total)
        => \/ pc = "mon_sleep" /\ mon_result.kind = "none"
           \/ pc = "mon_done" /\ mon_result.via = "status"

C4_Witness ==
    /\ pc = "mon_sleep"
    /\ poll_outcome = "ok"
    /\ stats.sent < stats.total
    /\ stats.clicked > 0
    /\ last_activity_check # None
    /\ now - last_activity_check > no_activity_timeout

\* C5 as stated: when the call ends through the quiet-period path, no poll of the
\* preceding 30 minutes saw clicked or submitted_data above the previous poll.
C5_QuietStopHadQuietPeriod ==
    mon_result.via = "quiet"
        => (last_growth = None \/ now - last_growth >= no_activity_timeout)

\* C6 as stated: a complete poll with a status outside the completed set, with
\* sent = total, clicked = 0 and submitted_data = 0, more than one hour after the
\* start, ends the call at that poll, for every total (0 included).
C6_NoActivityStopsAfterOneHour ==
    (/\ poll_outcome = "ok"
     /\ status \notin {"Completed", "Finished"}
     /\ stats.sent = stats.total
     /\ stats.clicked = 0
     /\ stats.submitted = 0
     /\ now - start_time > OneHour)
        => /\ pc = "mon_done"
           /\ mon_result.kind = "return"
           /\ mon_result.campaign.poll = polls

\* C6 amended: the same, for every total > 0 (sent = total and sent > 0).
C6_NoActivityStopsAfterOneHourWhenSent ==
    (/\ poll_outcome = "ok"
     /\ status \notin {"Completed", "Finished"}
     /\ stats.sent = stats.total
     /\ stats.sent > 0
     /\ stats.clicked = 0
     /\ stats.submitted = 0
     /\ now - start_time > OneHour)
        => /\ pc = "mon_done"
           /\ mon_result.kind = "return"
           /\ mon_result.via = "noactivity"
           /\ mon_result.campaign.poll = polls

C6_Witness ==
    /\ pc = "mon_done"
    /\ mon_result.via = "noactivity"
    /\ poll_outcome = "ok"
    /\ stats.sent = stats.total
    /\ stats.sent > 0
    /\ now - start_time > OneHour

\* --------------------------------------------------- extraction: properties

\* C7: extract_campaign_results never ends by an exception: whatever the campaign
\* argument (with or without 'id'), the shapes of the events, records and groups
\* and the reads that fail, it returns a list, and the list is empty whenever an
\* exception was caught or no method produced a user.
C7_ExtractNeverRaises ==
    /\ ext_result.kind # "raise"
    /\ (pc = "ext_done" => ext_result.kind = "return")
    /\ DOMAIN ext_result.users = 1..Len(ext_result.users)
    /\ (ext_error # "none" => ext_result.users = <<>>)
    /\ (pc = "ext_done" /\ produced = [A |-> <<>>, B |-> <<>>, C |-> <<>>]
            => ext_result.users = <<>>)

C7_Witness ==
    /\ pc = "ext_done"
    /\ ext_error = "AttributeError"
    /\ order = <<"A">>
    /\ results.v.timeline.t = "list"
    /\ Len(results.v.timeline.v) = 2
    /\ ext_result = [kind |-> "return", users |-> <<>>]

C9_StrategiesInOrderOneSource ==
    /\ order \in {<<>>, <<"A">>, <<"A", "B">>, <<"A", "C">>, <<"A", "B", "C">>}
    /\ ((\E i \in DOMAIN order : order[i] = "B") => produced.A = <<>>)
    /\ ((\E i \in DOMAIN order : order[i] = "C")
            => produced.A = <<>> /\ produced.B = <<>>)
    /\ (produced.A # <<>> => campaign_reads = 0)
    /\ (pc = "ext_done" /\ ext_result.users # <<>>
            => \/ /\ ext_result.users = produced.A
                  /\ produced.B = <<>> /\ produced.C = <<>>
               \/ /\ ext_result.users = produced.B
                  /\ produced.A = <<>> /\ produced.C = <<>>
               \/ /\ ext_result.users = produced.C
                  /\ produced.A = <<>> /\ produced.B = <<>>)

C9_Witness ==
    /\ pc = "ext_done"
    /\ produced.A # <<>>
    /\ ext_result.users = produced.A
    /\ results.v.stats # Absent
    /\ results.v.stats.v.clicked.v > 0
    /\ campaign_reads = 0
    /\ order = <<"A">>

\* C10: once Method 1 has gone through the timeline (no exception), a timeline of
\* one event whose message is "Clicked Link" in any letter case and whose email
\* field is a non-empty string e has given exactly one user, with email e and the
\* event's original message as event_type; every user Method 1 appended carries
\* the message of an event of the timeline that holds a vocabulary phrase; and a
\* timeline whose messages hold no vocabulary phrase has given no user.
C10_TimelineVocabulary ==
    (order # <<>> /\ ~(order = <<"A">> /\ ext_error # "none"))
        => LET tl == IF results.v.timeline = Absent THEN <<>>
                     ELSE results.v.timeline.v IN
           /\ (/\ Len(tl) = 1
               /\ tl[1].v.message \in {Str(ClickedLink), Str(ClickedLinkMixed)}
               /\ tl[1].v.email.t = "str"
               /\ tl[1].v.email.v # <<>>)
                  => /\ Len(produced.A) = 1
                     /\ produced.A[1].email = tl[1].v.email
                     /\ produced.A[1].event_type = tl[1].v.message
           /\ \A i \in DOMAIN produced.A :
                /\ produced.A[i].event_type \in
                       {Str(ClickedLink), Str(ClickedLinkMixed), Str(SubmittedData),
                        Str(Clicked), Str(XClicked)}
                /\ \E k \in DOMAIN tl : tl[k].v.message = produced.A[i].event_type
           /\ (\A k \in DOMAIN tl : tl[k].v.message \in {Str(EmailSent), Absent})
                  => produced.A = <<>>

C10_Witness ==
    /\ pc = "ext_done"
    /\ ext_error = "none"
    /\ results.v.timeline # Absent
    /\ Len(results.v.timeline.v) = 1
    /\ results.v.timeline.v[1].v.message = Str(ClickedLinkMixed)
    /\ ext_result.users # <<>>
    /\ ext_result.users[1].event_type = Str(ClickedLinkMixed)
    /\ ext_result.users[1].email = Str(MailA)

\* C11: once Method 1 has gone through the timeline (no exception), for every
\* email e and every lower-cased message m, the matching events of the timeline
\* that carry e in their email field and whose message lower-cases to m have given
\* exactly one user, built from the first of them in timeline order; so two events
\* with the same email and the same lower-cased message give one user and two
\* events with the same email and different lower-cased messages give two.
C11_OneUserPerEmailAndMessage ==
    (order # <<>> /\ ~(order = <<"A">> /\ ext_error # "none"))
        => LET tl == IF results.v.timeline = Absent THEN <<>>
                     ELSE results.v.timeline.v
               SameLowered == {{Str(ClickedLink), Str(ClickedLinkMixed)},
                               {Str(SubmittedData)}}
           IN \A e \in {Str(MailA), Str(MailB)} : \A ms \in SameLowered :
                LET evs == {k \in DOMAIN tl :
                               tl[k].v.email = e /\ tl[k].v.message \in ms}
                    us == {i \in DOMAIN produced.A :
                               /\ produced.A[i].email = e
                               /\ produced.A[i].event_type \in ms}
                IN /\ Cardinality(us) = (IF evs = {} THEN 0 ELSE 1)
                   /\ \A i \in us : \A k \in evs :
                        (\A j \in evs : k <= j)
                            => produced.A[i].event_type = tl[k].v.message

C11_Witness ==
    /\ pc = "ext_done"
    /\ ext_error = "none"
    /\ results.v.timeline # Absent
    /\ Len(results.v.timeline.v) = 2
    /\ results.v.timeline.v[1].v.message = Str(ClickedLinkMixed)
    /\ results.v.timeline.v[2].v.message = Str(ClickedLink)
    /\ results.v.timeline.v[1].v.email = Str(MailA)
    /\ results.v.timeline.v[2].v.email = Str(MailA)
    /\ Len(ext_result.users) = 1
    /\ ext_result.users[1].event_type = Str(ClickedLinkMixed)

\* C12: once Method 1 has gone through the timeline (no exception), every
\* matching event whose email field is missing or empty and whose details payload
\* carries a non-empty email has given a user with the details email.
C12_DetailsEmailWhenDirectMissingOrEmpty ==
    (order # <<>> /\ ~(order = <<"A">> /\ ext_error # "none"))
        => LET tl == IF results.v.timeline = Absent THEN <<>>
                     ELSE results.v.timeline.v
           IN \A k \in DOMAIN tl :
                (/\ tl[k].v.message \in
                        {Str(ClickedLink), Str(ClickedLinkMixed), Str(SubmittedData)}
                 /\ tl[k].v.email \in {Absent, Str(<<>>)}
                 /\ tl[k].v.details.t = "map"
                 /\ tl[k].v.details.v.email.t = "str"
                 /\ tl[k].v.details.v.email.v # <<>>)
                    => \E i \in DOMAIN produced.A :
                         produced.A[i].email = tl[k].v.details.v.email

\* C13: no user of the returned list has an upper-case letter in its email.
C13_ReturnedEmailsLowerCase ==
    pc = "ext_done"
        => \A i \in DOMAIN ext_result.users :
             \A c \in DOMAIN ext_result.users[i].email.v :
               \A u \in DOMAIN UpperCase :
                 ext_result.users[i].email.v[c] # UpperCase[u]

\* C14: once Method 1 has gone through the timeline and line 439 has been
\* decided, Method 2 was entered exactly when Method 1 appended no user and the
\* timeline was empty; with a non-empty timeline the result records are never
\* scanned, whatever the timeline matched.
C14_ResultScanOnlyOnEmptyTimeline ==
    /\ (pc \in {"ext_C", "ext_done"}
        /\ order # <<>> /\ ~(order = <<"A">> /\ ext_error # "none"))
           => ((\E i \in DOMAIN order : order[i] = "B")
                 <=> /\ produced.A = <<>>
                     /\ results.v.timeline \in {Absent, List(<<>>)})
    /\ (results # Unset /\ results.v.timeline.t = "list"
        /\ results.v.timeline.v # <<>>)
           => /\ campaign_results = Unset
              /\ produced.B = <<>>
              /\ \A i \in DOMAIN order : order[i] # "B"

C14_Witness ==
    /\ pc = "ext_done"
    /\ ext_error = "none"
    /\ results.v.timeline.t = "list"
    /\ Len(results.v.timeline.v) = 2
    /\ \A k \in 1..2 : results.v.timeline.v[k].v.message = Str(EmailSent)
    /\ order = <<"A", "C">>
    /\ campaign_reads = 1
    /\ campaign_results = Unset

\* C15: once Method 2 has gone through the result records (no exception), its
\* users are, in the order of the records, one for each record that has status
\* "Clicked Link" or "Submitted Data", or a 'clicked' or 'submitted_data' key, or
\* a true 'reported', and that has a non-empty email no earlier such record had;
\* the user has the record's email, its send_date as event_time, and event_type
\* "Submitted Data" when the record has a 'submitted_data' key or status
\* "Submitted Data" and "Clicked Link" otherwise.
C15_ResultScanEmits ==
    (/\ Len(order) >= 2
     /\ order[2] = "B"
     /\ ~(order = <<"A", "B">> /\ ext_error # "none"))
        => LET rs == campaign_results.v
               Q(r) == \/ r.v.status \in {Str(ClickedLink), Str(SubmittedData)}
                       \/ r.v.clicked # Absent
                       \/ r.v.submitted_data # Absent
                       \/ r.v.reported = True
               Emits(k) == /\ Q(rs[k])
                           /\ rs[k].v.email.t = "str"
                           /\ rs[k].v.email.v # <<>>
                           /\ \A j \in 1..(k - 1) :
                                ~(Q(rs[j]) /\ rs[j].v.email = rs[k].v.email)
               ks == {k \in DOMAIN rs : Emits(k)}
           IN /\ Len(produced.B) = Cardinality(ks)
              /\ \A k \in ks :
                   LET u == produced.B[Cardinality({j \in ks : j <= k})] IN
                   /\ u.email = rs[k].v.email
                   /\ u.event_time = rs[k].v.send_date
                   /\ u.event_type =
                        (IF \/ rs[k].v.submitted_data # Absent
                            \/ rs[k].v.status = Str(SubmittedData)
                         THEN Str(SubmittedData) ELSE Str(ClickedLink))

C15_Witness ==
    /\ pc = "ext_done"
    /\ ext_error = "none"
    /\ order = <<"A", "B">>
    /\ results.v.timeline = List(<<>>)
    /\ Len(campaign_results.v) = 1
    /\ campaign_results.v[1].v.status = Str(SubmittedData)
    /\ campaign_results.v[1].v.submitted_data = Absent
    /\ Len(ext_result.users) = 1
    /\ ext_result.users[1].email = campaign_results.v[1].v.email
    /\ ext_result.users[1].event_type = Str(SubmittedData)

\* C16 as stated: once Method 3 has gone through the groups (no exception), its
\* list has exactly min(max(clicked, submitted_data), number of targets of the
\* first group) users, the i-th being the i-th target, labelled "Submitted Data"
\* when i < submitted_data (i from 0) and "Clicked Link" otherwise.
C16_ReconstructionPerTarget ==
    (pc = "ext_done" /\ ext_error = "none" /\ order[Len(order)] = "C")
        => LET c == results.v.stats.v.clicked.v
               d == results.v.stats.v.submitted_data.v
               ts == IF groups.v = <<>> THEN <<>> ELSE groups.v[1].v.targets.v
               most == IF c >= d THEN c ELSE d
               n == IF most <= Len(ts) THEN most ELSE Len(ts)
           IN /\ Len(produced.C) = n
              /\ \A k \in 1..n :
                   /\ k <= Len(produced.C)
                   /\ produced.C[k].email = ts[k].v.email
                   /\ produced.C[k].event_type =
                        (IF k <= d THEN Str(SubmittedData) ELSE Str(ClickedLink))

\* C16 amended: Method 3's list holds, in the group's order, one user for each
\* of the first max(clicked, submitted_data) targets of the first group that has
\* a non-empty email, labelled by the target's position i in the group (from 0):
\* "Submitted Data" when i < submitted_data, "Clicked Link" otherwise; when all
\* those targets have an email the list has exactly
\* min(max(clicked, submitted_data), number of targets) users.
C16_ReconstructionPerTargetWithEmail ==
    (pc = "ext_done" /\ ext_error = "none" /\ order[Len(order)] = "C")
        => LET c == results.v.stats.v.clicked.v
               d == results.v.stats.v.submitted_data.v
               ts == IF groups.v = <<>> THEN <<>> ELSE groups.v[1].v.targets.v
               most == IF c >= d THEN c ELSE d
               n == IF most <= Len(ts) THEN most ELSE Len(ts)
               ks == {k \in 1..n : ts[k].v.email.t = "str" /\ ts[k].v.email.v # <<>>}
           IN /\ Len(produced.C) = Cardinality(ks)
              /\ (ks = 1..n => Len(produced.C) = n)
              /\ ext_result.users = produced.C
              /\ \A k \in ks :
                   LET u == produced.C[Cardinality({j \in ks : j <= k})] IN
                   /\ u.email = ts[k].v.email
                   /\ u.first_name = ts[k].v.first_name
                   /\ u.event_type =
                        (IF k <= d THEN Str(SubmittedData) ELSE Str(ClickedLink))

C16_Witness ==
    /\ pc = "ext_done"
    /\ ext_error = "none"
    /\ order = <<"A", "B", "C">>
    /\ results.v.stats.v.clicked = Num(2)
    /\ results.v.stats.v.submitted_data = Num(1)
    /\ Len(groups.v) = 1
    /\ Len(groups.v[1].v.targets.v) = 2
    /\ Len(ext_result.users) = 2
    /\ ext_result.users[1].email = Str(MailA)
    /\ ext_result.users[1].event_type = Str(SubmittedData)
    /\ ext_result.users[2].email = Str(MailB)
    /\ ext_result.users[2].event_type = Str(ClickedLink)

\* C17: no target of a second or later group is ever in the list being built or
\* in the returned list: every user of Method 3 has the email of a target of the
\* first group, and with a first group without targets Method 3 gives no user
\* even when a later group has targets.
C17_OnlyFirstGroup ==
    /\ \A i \in DOMAIN affected_users : affected_users[i].email # Str(MailOther)
    /\ \A i \in DOMAIN ext_result.users :
         ext_result.users[i].email # Str(MailOther)
    /\ \A i \in DOMAIN produced.C :
         \E k \in DOMAIN groups.v[1].v.targets.v :
           groups.v[1].v.targets.v[k].v.email = produced.C[i].email

C17_Witness ==
    /\ pc = "ext_done"
    /\ ext_error = "none"
    /\ order[Len(order)] = "C"
    /\ Len(groups.v) = 2
    /\ groups.v[1].v.targets.v = <<>>
    /\ groups.v[2].v.targets.v # <<>>
    /\ ext_result.users = <<>>

\* C18: no two records of the returned list have the same email and the same
\* event type.
C18_ReturnedListDeduplicated ==
    pc = "ext_done"
        => \A i, j \in DOMAIN ext_result.users :
             (/\ i # j
              /\ ext_result.users[i].email = ext_result.users[j].email)
                => ext_result.users[i].event_type # ext_result.users[j].event_type

\* C19: when the second call for a campaign has read the same summary, result
\* records and groups as the first and has ended the same way (no read failed in
\* one call only), it returns the users of the first call, the same records in
\* the same order: identical when they come from the timeline or the result
\* records, identical up to event_time when Method 3 made them.
C19_SecondCallSameList ==
    (/\ pc = "ext_done"
     /\ calls = 2
     /\ ext_error = first_call.error
     /\ results = first_call.results
     /\ campaign_results = first_call.campaign_results
     /\ groups = first_call.groups)
        => LET NoTime(us) == [i \in DOMAIN us |-> [us[i] EXCEPT !.event_time = Null]]
           IN /\ NoTime(ext_result.users) = NoTime(first_call.result.users)
              /\ (produced.C = <<>> => ext_result.users = first_call.result.users)
              /\ ext_result.kind = first_call.result.kind

C19_Witness ==
    /\ pc = "ext_done"
    /\ calls = 2
    /\ ext_error = "none"
    /\ first_call.error = "none"
    /\ results = first_call.results
    /\ campaign_results = first_call.campaign_results
    /\ groups = first_call.groups
    /\ order = <<"A">>
    /\ Len(results.v.timeline.v) = 2
    /\ Len(ext_result.users) = 1
    /\ ext_result.users = first_call.result.users

\* C20 as stated: two calls given the same campaign argument, no read failing,
\* return the same users (up to the event_time of Method 3) whatever the service
\* holds at each call.
C20_SameArgumentSameUsers ==
    (/\ pc = "ext_done"
     /\ calls = 2
     /\ campaign_arg = first_call.arg
     /\ ext_error = "none"
     /\ first_call.error = "none")
        => \A f \in {"email", "first_name", "last_name", "event_type"} :
             [i \in DOMAIN ext_result.users |-> ext_result.users[i][f]]
                = [i \in DOMAIN first_call.result.users |->
                       first_call.result.users[i][f]]

\* C20 amended: every user a call returns is built from what that call has read
\* from the service: its email is the email (or details email) of an event of the
\* timeline read in the call, of a result record read in the call or of a target
\* of the first group read in the call, also in a second call for the same
\* campaign argument after the service has changed.
C20_UsersFromReadsOfTheCall ==
    (pc = "ext_done" /\ ext_result.users # <<>>)
        => LET tl == IF results.v.timeline = Absent THEN <<>>
                     ELSE results.v.timeline.v
               rs == IF campaign_results = Unset THEN <<>> ELSE campaign_results.v
               ts == IF groups = Unset \/ groups.v = <<>> THEN <<>>
                     ELSE groups.v[1].v.targets.v
               read == {tl[k].v.email : k \in DOMAIN tl}
                       \cup {tl[k].v.details.v.email :
                                k \in {j \in DOMAIN tl : tl[j].v.details.t = "map"}}
                       \cup {rs[k].v.email : k \in DOMAIN rs}
                       \cup {ts[k].v.email : k \in DOMAIN ts}
           IN \A i \in DOMAIN ext_result.users : ext_result.users[i].email \in read

C20_Witness ==
    /\ pc = "ext_done"
    /\ calls = 2
    /\ campaign_arg = first_call.arg
    /\ ext_error = "none"
    /\ first_call.error = "none"
    /\ results # first_call.results
    /\ Len(first_call.result.users) = 1
    /\ first_call.result.users[1].email = Str(MailA)
    /\ Len(ext_result.users) = 1
    /\ ext_result.users[1].email = Str(MailB)

\* C21: whatever else the timeline holds (an event that is null, an event whose
\* message or details is null), every well-formed matching event of the timeline
\* with a non-empty email is in the returned list of the same call.
C21_MalformedEventDoesNotHideOthers ==
    (pc = "ext_done" /\ results # Unset /\ results.v.timeline.t = "list")
        => LET tl == results.v.timeline.v IN
           \A k \in DOMAIN tl :
             (/\ tl[k].t = "map"
              /\ tl[k].v.message \in
                     {Str(ClickedLink), Str(ClickedLinkMixed), Str(SubmittedData)}
              /\ tl[k].v.email.t = "str"
              /\ tl[k].v.email.v # <<>>
              /\ tl[k].v.details.t \in {"absent", "map"})
                 => \E i \in DOMAIN ext_result.users :
                      ext_result.users[i].email = tl[k].v.email

\* C26: within a call last_activity_check is a latch: once set it never changes,
\* whatever later polls show; it is set only by a complete poll that reads
\* sent = total, sent > 0 and clicked > 0 or submitted_data > 0, to the time of
\* that poll; and the first such poll (its status not ending the call) sets it.
C26_ActivityClockIsALatch ==
    [][ /\ (last_activity_check # None
               => last_activity_check' = last_activity_check)
        /\ (last_activity_check = None /\ last_activity_check' # None
               => /\ polls' = polls + 1
                  /\ poll_outcome' = "ok"
                  /\ stats'.sent = stats'.total /\ stats'.sent > 0
                  /\ (stats'.clicked > 0 \/ stats'.submitted > 0)
                  /\ last_activity_check' = now)
        /\ (/\ last_activity_check = None
            /\ polls' = polls + 1
            /\ poll_outcome' = "ok"
            /\ status' \notin {"Completed", "Finished"}
            /\ stats'.sent = stats'.total /\ stats'.sent > 0
            /\ (stats'.clicked > 0 \/ stats'.submitted > 0))
               => last_activity_check' = now
      ]_vars

C26_Witness ==
    /\ pc = "mon_sleep"
    /\ poll_outcome = "ok"
    /\ last_activity_check # None
    /\ now - last_activity_check > no_activity_timeout
    /\ stats.sent < stats.total
    /\ last_growth = now

\* C27: a poll in which a read fails leaves last_activity_check, the start time
\* and the deadline as they were and does not end the call; it is followed by one
\* check-interval sleep; and every poll, the first one apart, starts exactly one
\* check interval after the poll before it, failed or not.
C27_FailedPollChangesNothing ==
    [][ /\ (polls' = polls + 1 /\ poll_outcome' = "failed"
               => /\ last_activity_check' = last_activity_check
                  /\ start_time' = start_time
                  /\ timeout_time' = timeout_time
                  /\ mon_result' = mon_result
                  /\ mon_result.kind = "none"
                  /\ pc' = "mon_sleep")
        /\ (poll_outcome = "failed" /\ pc = "mon_sleep"
               => /\ now' = now + check_interval
                  /\ sleeps' = sleeps + 1
                  /\ polls' = polls
                  /\ pc' = "mon_while")
        /\ (polls' = polls + 1
               => /\ sleeps = polls
                  /\ now = start_time + polls * check_interval)
      ]_vars

C27_Witness ==
    /\ pc = "mon_poll"
    /\ polls = 3
    /\ sleeps = 3
    /\ now = start_time + 3 * check_interval
    /\ last_activity_check = start_time + check_interval

\* C28: the call never ends through the no-activity path once a complete poll of
\* the call has read sent = total with clicked > 0 or submitted_data > 0 (which
\* is when last_activity_check is set), whatever the later snapshots read.
C28_NoActivityStopOnlyIfNeverActive ==
    mon_result.via = "noactivity" => last_activity_check = None

C30_KeyDistinguishesPairs ==
    (order # <<>> /\ ~(order = <<"A">> /\ ext_error # "none"))
        => LET tl == IF results.v.timeline = Absent THEN <<>>
                     ELSE results.v.timeline.v
               Low(msg) == IF msg = Str(ClickedLinkMixed) THEN Str(ClickedLink)
                           ELSE msg
               Match(k) == /\ tl[k].v.message \in
                                {Str(ClickedLink), Str(ClickedLinkMixed),
                                 Str(SubmittedData), Str(Clicked), Str(XClicked)}
                           /\ tl[k].v.email.t = "str"
                           /\ tl[k].v.email.v # <<>>
               Pair(k) == <<tl[k].v.email, Low(tl[k].v.message)>>
           IN \A k, j \in DOMAIN tl :
                (k < j /\ Match(k) /\ Match(j) /\ Pair(k) # Pair(j))
                    => \E a, b \in DOMAIN produced.A :
                         /\ a # b
                         /\ <<produced.A[a].email, Low(produced.A[a].event_type)>>
                                = Pair(k)
                         /\ <<produced.A[b].email, Low(produced.A[b].event_type)>>
                                = Pair(j)

\* ---------------------------------------------------------- run: properties

\* C22: in send_warning_emails a failed send never blocks the remaining ones:
\* whatever the list of affected users and whichever sends fail, the sends
\* attempted are those of the records in list order, each once, all of them
\* once the call has ended, and the call ends without raising: a run that was
\* not interrupted never exits between the call and its end.
C22_EveryRecordIsSentOnceInOrder ==
    LET sends == SelectSeq(log, LAMBDA e : e.op = "send")
        n == Len(ext_result.users)
    IN /\ Len(sends) <= n
       /\ \A k \in 1..Len(sends) : sends[k].arg = k
       /\ Done("notify_ended") => Len(sends) = n
       /\ (Done("notify_called") /\ pc = "exited" /\ interrupted = NoInterrupt)
            => Done("notify_ended")

\* send_warning_emails has ended for two records, the send of the first failed
\* and the second was sent
C22_Witness ==
    /\ Done("notify_ended")
    /\ Len(ext_result.users) = 2
    /\ \E i \in 1..Len(log) : log[i] = Ev("send_failed", 1)
    /\ \E i \in 1..Len(log) : log[i] = Ev("sent", 2)

\* C23: sink and notifier are invoked one after the other and only after
\* extraction: save_results_csv is called only after extract_campaign_results
\* has returned, send_warning_emails only after save_results_csv has ended,
\* extract_campaign_results in the monthly run only after
\* wait_for_campaign_completion has returned, and after an extraction that
\* returned an empty list neither save_results_csv nor send_warning_emails is
\* called.
C23_SinkThenNotifierAfterExtraction ==
    \A i \in 1..Len(log) :
        /\ log[i].op = "save_called"
             => \E j \in 1..(i - 1) : log[j].op = "extract_returned"
        /\ log[i].op = "notify_called"
             => \E j \in 1..(i - 1) : log[j].op = "save_ended"
        /\ (log[i].op = "extract_called" /\ run = "monthly")
             => \E j \in 1..(i - 1) : log[j].op = "wait_returned"
        /\ log[i] = Ev("extract_returned", 0)
             => ~Done("save_called") /\ ~Done("notify_called")

\* a monthly run that went through monitor, extraction, sink and notifier and
\* ended
C23_Witness ==
    /\ run = "monthly"
    /\ pc = "exited"
    /\ exit_code = 0
    /\ interrupted = NoInterrupt
    /\ Done("wait_returned")
    /\ Done("save_ended")
    /\ Done("notify_ended")

\* C24: a KeyboardInterrupt arriving at any position of a run is caught by no
\* handler but main's: the process ends with exit code 0, and nothing is
\* polled, saved or sent after the interruption.
C24_InterruptEndsTheRunWithZero ==
    interrupted # NoInterrupt
        => /\ pc = "exited"
           /\ exit_code = 0
           /\ log = interrupted.log
           /\ polls = interrupted.polls

\* the interruption arrived inside the second poll of the monitor
C24_Witness ==
    /\ interrupted.at = "mon_poll"
    /\ interrupted.polls = 1
    /\ polls = 1
    /\ sleeps = 1
    /\ pc = "exited"

\* C25: when the configuration or the API key is missing or the connection
\* test fails, the process ends with a non-zero exit code and the core is never
\* entered: no group and no campaign is created, wait_for_campaign_completion
\* and extract_campaign_results are never called.
C25_StartupFailureNeverEntersTheCore ==
    Done("startup_error")
        => /\ pc = "exited"
           /\ exit_code > 0
           /\ ~Done("create_group")
           /\ ~Done("create_campaign")
           /\ ~Done("wait_called")
           /\ ~Done("extract_called")
           /\ polls = 0
           /\ order = <<>>

\* the connection test failed: exit code 2
C25_Witness ==
    /\ log = <<Ev("startup_error", 3)>>
    /\ pc = "exited"
    /\ exit_code = 2

\* ------------------------------------------- extraction: properties, continued

\* C31: Method 2 de-duplicates by email only: whatever the list of result
\* records, no two users it appends have the same email, and the user of an
\* email is built from the first qualifying record that carries this email:
\* event_type and event_time are those of that record alone.
C31_ResultScanKeepsFirstRecordPerEmail ==
    (ext_error = "none" /\ campaign_results # Unset /\ campaign_results.t = "list")
        => LET rs == campaign_results.v
               us == produced.B
               Of(i, email) ==
                   /\ rs[i].t = "map"
                   /\ Qualifies(rs[i])
                   /\ Get(rs[i], "email", Str(<<>>)) = email
           IN /\ \A i, j \in 1..Len(us) : i # j => us[i].email # us[j].email
              /\ \A k \in 1..Len(us) :
                    \E i \in 1..Len(rs) :
                        /\ Of(i, us[k].email)
                        /\ \A j \in 1..(i - 1) : ~Of(j, us[k].email)
                        /\ us[k].event_time = Get(rs[i], "send_date", Str(<<>>))
                        /\ us[k].event_type =
                               IF HasKey(rs[i], "submitted_data")
                                  \/ Get(rs[i], "status", Null) = Str(SubmittedData)
                               THEN Str(SubmittedData) ELSE Str(ClickedLink)

\* Method 2 read a clicked record and then a submitted record of one email
\* and appended one user, a click
C31_Witness ==
    /\ pc = "ext_done"
    /\ ext_error = "none"
    /\ campaign_results =
           List(<<Result(Str(ClickedLink), Str(MailA), Absent, Absent, Absent),
                  Result(Str(SubmittedData), Str(MailA), Absent, Absent, Absent)>>)
    /\ Len(produced.B) = 1
    /\ produced.B[1].email = Str(MailA)
    /\ produced.B[1].event_type = Str(ClickedLink)
    /\ ext_result.users = produced.B

\* C32: every user extract_campaign_results returns has a non-empty email,
\* whichever method appended it: an event, result record or target whose email
\* is missing, null or empty gives no user.
C32_ReturnedUsersHaveAnEmail ==
    \A k \in 1..Len(ext_result.users) :
        ext_result.users[k].email \notin {Absent, Null, Str(<<>>)}

\* Method 2 read a qualifying record with an empty email and a qualifying
\* record with an email, and only the second gave a user
C32_Witness ==
    /\ pc = "ext_done"
    /\ ext_error = "none"
    /\ campaign_results =
           List(<<Result(Str(ClickedLink), Str(<<>>), Absent, Absent, Absent),
                  Result(Str(SubmittedData), Str(MailB), Absent, Absent, Absent)>>)
    /\ Len(ext_result.users) = 1
    /\ ext_result.users[1].email = Str(MailB)

\* ------------------------------------------------ monitor: properties, continued

\* C33: wait_for_campaign_completion always ends when every read returns or
\* fails and every sleep ends, and with time advancing by one check interval
\* per iteration it starts at most ceil(timeout / check_interval) polls,
\* whatever the polls read and whichever of them fail.
C33_MonitorEndsWithinPollBound ==
    /\ <>(pc = "mon_done")
    /\ [](polls * check_interval < (timeout_time - start_time) + check_interval)

\* a call of the shortest timeout that ended by the deadline after two polls,
\* one of them at least complete, none of them starting the activity clock
C33_Witness ==
    /\ pc = "mon_done"
    /\ mon_result.via = "deadline"
    /\ timeout_time - start_time = TimeoutStep
    /\ polls = 2
    /\ last_activity_check = None
    /\ prev_activity # NoneSeen

\* C34: with polls that take no time, a call whose timeout is at most 30
\* minutes never ends through the quiet-period path and a call whose timeout is
\* at most one hour never ends through the no-activity path: a call of at most
\* 30 minutes ends by the status label or by the deadline only.
C34_ShortCallsEndByStatusOrDeadline ==
    LET timeout == timeout_time - start_time
    IN /\ mon_result.via = "quiet" => timeout > no_activity_timeout
       /\ mon_result.via = "noactivity" => timeout > OneHour
       /\ (pc = "mon_done" /\ timeout <= no_activity_timeout)
            => mon_result.via \in {"status", "deadline"}

\* a call of 30 minutes saw activity at its first poll, polled three times and
\* ended by the deadline
C34_Witness ==
    /\ pc = "mon_done"
    /\ timeout_time - start_time = no_activity_timeout
    /\ last_activity_check = start_time
    /\ polls = 3
    /\ prev_activity.clicked > 0
    /\ mon_result.via = "deadline"

\* ------------------------------------------------- run: properties, continued

\* C35: the notifier sends once per returned record, not once per person: when
\* send_warning_emails has ended, the sends attempted are as many as the
\* records extraction returned, and an email carried by k records was the
\* recipient of k attempts.
C35_OneSendPerRecord ==
    Done("notify_ended")
        => LET users == ext_result.users
               sends == SelectSeq(log, LAMBDA e : e.op = "send")
           IN /\ Len(sends) = Len(users)
              /\ \A k \in 1..Len(users) :
                    Cardinality({i \in 1..Len(sends) :
                                   /\ sends[i].arg \in 1..Len(users)
                                   /\ users[sends[i].arg].email = users[k].email})
                      = Cardinality({j \in 1..Len(users) :
                                       users[j].email = users[k].email})

\* extraction returned two records of one email, for a click and for a
\* submission, and send_warning_emails ended after two sends to it
C35_Witness ==
    /\ Done("notify_ended")
    /\ Len(ext_result.users) = 2
    /\ ext_result.users[1].email = ext_result.users[2].email
    /\ ext_result.users[1].event_type # ext_result.users[2].event_type
    /\ \E i \in 1..Len(log) : log[i] = Ev("send", 2)

\* C36: a failure of save_results_csv does not stop the run: the step in which
\* the write fails leaves the program where a successful write leaves it, at
\* the test of the send_warning_emails setting, with no exit code; and a run
\* whose write failed and that was not interrupted ends with exit code 0, after
\* a send for every extracted record if send_warning_emails was called.
C36_SinkFailureDoesNotStopTheRun ==
    /\ [][(pc = "run_saving" /\ log' = Append(log, Ev("save_ended", 1)))
             => (pc' = "run_saved" /\ exit_code' = None)]_vars
    /\ []((/\ \E i \in 1..Len(log) : log[i] = Ev("save_ended", 1)
           /\ pc = "exited"
           /\ interrupted = NoInterrupt)
            => /\ exit_code = 0
               /\ Done("notify_called")
                    => /\ Done("notify_ended")
                       /\ Len(SelectSeq(log, LAMBDA e : e.op = "send"))
                            = Len(ext_result.users))

\* a monthly run whose write failed, that sent to both extracted records and
\* ended with exit code 0
C36_Witness ==
    /\ run = "monthly"
    /\ \E i \in 1..Len(log) : log[i] = Ev("save_ended", 1)
    /\ Len(ext_result.users) = 2
    /\ \E i \in 1..Len(log) : log[i] = Ev("sent", 2)
    /\ Done("notify_ended")
    /\ pc = "exited"
    /\ exit_code = 0

============================================================================
